---------------------------- MODULE Spec2Model ----------------------------
(***************************************************************************)
(* Speaker service (src/server/speaker-service/speaker_service.py): the    *)
(* module globals that hold the models, the startup load run by the ASGI   *)
(* lifespan, and the four request handlers, as coroutines on one event     *)
(* loop.  Temporary files are a small file system; the external decoder,   *)
(* embedding model and diarization pipeline are black boxes whose outcome  *)
(* (a result or an exception) is drawn from small sets.                    *)
(***************************************************************************)
EXTENDS Integers, Sequences, FiniteSets, TLC

(***************************************************************************)
(* Bounds of the model.                                                    *)
(***************************************************************************)
\* Number of request slots: how many requests can be in flight at once.
NumReq == 2
\* Number of distinct temporary file names the file system can hand out.
MaxTmp == 2

Req == 1..NumReq
TmpNames == 1..MaxTmp

VARIABLES
    hf_token,              \* os.environ["HF_TOKEN"]: "None" (unset), "" or a token
    ecapa_model,           \* global: "None" or "ecapa"
    diarization_pipeline,  \* global: "None" or "pipeline"
    models_loaded,         \* global
    diarization_available, \* global
    startup,               \* position of the lifespan coroutine / _load_models
    load_calls,            \* how many times _load_models has been entered
    loop,                  \* request whose coroutine occupies the event-loop thread, 0 if none
    req,                   \* per slot: the request being handled and where its handler is
    tmpfiles               \* temporary directory: name -> content, NoFile when absent

globals == <<ecapa_model, diarization_pipeline, models_loaded, diarization_available>>
vars == <<hf_token, ecapa_model, diarization_pipeline, models_loaded,
          diarization_available, startup, load_calls, loop, req, tmpfiles>>

(***************************************************************************)
(* File names and extensions.                                              *)
(***************************************************************************)
\* A file name is a sequence of characters; <<>> stands for a missing name
\* (None or ""), which `filename or "audio.wav"` replaces.
DefaultName == <<"a","u","d","i","o",".","w","a","v">>

FileNames ==
    { <<>>,
      <<"a",".","W","A","V">>,
      <<"a",".","t","x","t">> }

SUPPORTED_EXTENSIONS ==
    { <<".","w","a","v">>, <<".","m","p","3">>, <<".","o","g","g">>,
      <<".","w","e","b","m">>, <<".","m","4","a">>, <<".","f","l","a","c">>,
      <<".","a","a","c">> }

UpperToLower ==
    ("W" :> "w") @@ ("A" :> "a") @@ ("V" :> "v") @@ ("M" :> "m") @@ ("P" :> "p")

\* str.lower(), on the characters the model's names use
Lower(s) ==
    [i \in 1..Len(s) |-> IF s[i] \in DOMAIN UpperToLower THEN UpperToLower[s[i]] ELSE s[i]]

\* index of the last occurrence of c in p, 0 when there is none (str.rfind, 1-based)
RFind(p, c) ==
    LET hits == {i \in 1..Len(p) : p[i] = c}
    IN  IF hits = {} THEN 0 ELSE CHOOSE i \in hits : \A j \in hits : j <= i

\* os.path.splitext(p)[1]: the extension starts at the last dot of the last
\* path component, unless that component has only dots before it
SplitExt(p) ==
    LET sepIndex == RFind(p, "/")
        dotIndex == RFind(p, ".")
    IN  IF dotIndex > sepIndex /\ \E i \in (sepIndex + 1)..(dotIndex - 1) : p[i] # "."
        THEN SubSeq(p, dotIndex, Len(p))
        ELSE <<>>

\* os.path.splitext(filename or "audio.wav")[1].lower()
Suffix(filename) ==
    Lower(SplitExt(IF filename = <<>> THEN DefaultName ELSE filename))

(***************************************************************************)
(* Uploaded bytes, by what the external decoder makes of them.             *)
(***************************************************************************)
Garbage == [ok |-> FALSE, ch |-> 0, sr |-> 0, n |-> 0]
Audio(c, r, k) == [ok |-> TRUE, ch |-> c, sr |-> r, n |-> k]

Uploads ==
    { Garbage, Audio(2, 8000, 12001), Audio(1, 16000, 0) }

NoFile == [ok |-> FALSE, ch |-> 0 - 1, sr |-> 0, n |-> 0]


(***************************************************************************)
(* Waveform normalisation (_load_audio, after the decode).                 *)
(***************************************************************************)
SampleRate == 16000

\* ceil(x / y) for x >= 0, y > 0
CeilDiv(x, y) == (x + y - 1) \div y

\* x / y rounded to the nearest integer, ties to even (x >= 0, y > 0)
RoundDiv(x, y) ==
    LET q == x \div y
        r == x % y
    IN  IF 2 * r > y \/ (2 * r = y /\ q % 2 = 1) THEN q + 1 ELSE q

\* waveform.mean(dim=0, keepdim=True), only for more than one channel
Mono(w) ==
    IF w.ch > 1 THEN [w EXCEPT !.ch = 1, !.downmixed = TRUE] ELSE w

\* Faulty variant of Resample: only rates above 16000 are converted.
ResampleOnlyDown(w) ==
    IF w.sr > SampleRate
    THEN [w EXCEPT !.sr = SampleRate, !.n = CeilDiv(SampleRate * w.n, w.sr),
                   !.resampled = TRUE]
    ELSE w

\* torchaudio.functional.resample(waveform, sr, 16000), only for another rate:
\* the result has ceil(16000 * n / sr) samples
Resample(w) ==
    IF w.sr # SampleRate
    THEN [w EXCEPT !.sr = SampleRate, !.n = CeilDiv(SampleRate * w.n, w.sr),
                   !.resampled = TRUE]
    ELSE w

\* what torchaudio.load returned, as a waveform record
\* waveform.squeeze(0): the channel dimension goes if its size is 1
Squeeze(w) ==
    IF w.ch = 1 THEN [w EXCEPT !.ndim = 1] ELSE w

\* what torchaudio.load returned, as a waveform record: a (channels, samples)
\* tensor and its rate
Decoded(content) ==
    [ch |-> content.ch, sr |-> content.sr, n |-> content.n, ndim |-> 2,
     downmixed |-> FALSE, resampled |-> FALSE]

NoWaveform ==
    [ch |-> 0, sr |-> 0, n |-> 0, ndim |-> 0, downmixed |-> FALSE, resampled |-> FALSE]

\* the waveform _load_audio returns for a decodable content
Normalise(content) == Squeeze(Resample(Mono(Decoded(content))))

\* round(len(waveform) / 16000.0, 3), in milliseconds
DurationMs(w) == RoundDiv(w.n * 1000, SampleRate)

\* Faulty variant of EncodeBatch: the batch is kept in a buffer all requests
\* share, and the model is run on the oldest waveform still in it.
EncodeBatchSharedBuffer(w) ==
    LET holders == {q \in Req : req[q].waveform # NoWaveform}
        first == CHOOSE q \in holders : \A other \in holders : q <= other
    IN  [encoding_of |-> [n |-> req[first].waveform.n, sr |-> req[first].waveform.sr]]

\* ecapa_model.encode_batch(batch).squeeze()...tolist(): the model is a black
\* box and deterministic, so its output is the term "the encoding of w"
EncodeBatch(w) == [encoding_of |-> [n |-> w.n, sr |-> w.sr]]

(***************************************************************************)
(* Cosine similarity (compare).  Vector components are integers in units   *)
(* of 1e-4, so that the epsilon 1e-8 is one unit of a product.  The model  *)
(* draws vectors whose L2 norm is a whole number of units, so the norm is  *)
(* exact; the arithmetic is that of the reals.                             *)
(***************************************************************************)
Vectors ==
    { <<1>>, <<6000, 8000>> }

RECURSIVE SumProd(_, _, _)
SumProd(a, b, i) ==
    IF i > Len(a) THEN 0 ELSE a[i] * b[i] + SumProd(a, b, i + 1)

\* np.dot(a, b)
Dot(a, b) == SumProd(a, b, 1)

RECURSIVE SqrtBetween(_, _, _)
SqrtBetween(x, lo, hi) ==
    IF lo = hi THEN lo
    ELSE LET mid == (lo + hi + 1) \div 2
         IN  IF mid * mid <= x THEN SqrtBetween(x, mid, hi)
             ELSE SqrtBetween(x, lo, mid - 1)

\* np.linalg.norm(a)
Norm(a) == SqrtBetween(Dot(a, a), 0, 46340)

Abs(x) == IF x < 0 THEN 0 - x ELSE x

RECURSIVE Digits(_, _, _, _)
\* long division: the quotient of rem / den carried to k more decimal places,
\* as <<quotient, remainder>>
Digits(q, rem, den, k) ==
    IF k = 0 THEN <<q, rem>>
    ELSE Digits(10 * q + (10 * rem) \div den, (10 * rem) % den, den, k - 1)

\* Faulty variant of RoundedSimilarity: the norm of the first vector is used
\* twice, cos_sim = dot / (na * na + 1e-8).
RoundedSimilarityOwnNorm(dot, na, nb) ==
    LET den == na * na + 1
        d   == Digits(Abs(dot) \div den, Abs(dot) % den, den, 4)
        up  == 2 * d[2] > den \/ (2 * d[2] = den /\ d[1] % 2 = 1)
        mag == IF up THEN d[1] + 1 ELSE d[1]
    IN  IF dot < 0 THEN 0 - mag ELSE mag

\* Faulty variant of RoundedSimilarity: the fifth decimal is cut off instead
\* of rounded.
RoundedSimilarityTruncates(dot, na, nb) ==
    LET den == na * nb + 1
        d   == Digits(Abs(dot) \div den, Abs(dot) % den, den, 4)
    IN  IF dot < 0 THEN 0 - d[1] ELSE d[1]

\* round(cos_sim, 4) in units of 1e-4, for cos_sim = dot / (na * nb + 1e-8)
RoundedSimilarity(dot, na, nb) ==
    LET den == na * nb + 1
        d   == Digits(Abs(dot) \div den, Abs(dot) % den, den, 4)
        up  == 2 * d[2] > den \/ (2 * d[2] = den /\ d[1] % 2 = 1)
        mag == IF up THEN d[1] + 1 ELSE d[1]
    IN  IF dot < 0 THEN 0 - mag ELSE mag

\* Faulty variant of IsMatch: the threshold test without the epsilon,
\* dot >= 0.80 * na * nb.
IsMatchNoEpsilon(dot, na, nb) == 5 * dot >= 4 * (na * nb)

\* cos_sim >= 0.80
IsMatch(dot, na, nb) == 5 * dot >= 4 * (na * nb + 1)

(***************************************************************************)
(* Diarization results: what the pipeline yields for a file, as the        *)
(* sequence of tracks of result.itertracks(yield_label=True).  Times are   *)
(* in units of 1e-4 s.                                                     *)
(***************************************************************************)
Track(s, e, spk) == [start |-> s, end |-> e, speaker |-> spk]

PipelineResults ==
    { << Track(0, 12346, "SPEAKER_00"), Track(15000, 15004, "SPEAKER_01") >> }

\* round(t, 3), in milliseconds, for t in units of 1e-4 s
RoundMs(t) == RoundDiv(t, 10)

\* Faulty variant of Segments: turns whose rounded start and end coincide
\* are left out.
SegmentsSkipEmpty(result) ==
    SelectSeq([i \in 1..Len(result) |->
                  [speaker |-> result[i].speaker,
                   start |-> RoundMs(result[i].start),
                   end |-> RoundMs(result[i].end)]],
              LAMBDA seg : seg.start < seg.end)

\* the loop of diarize: one DiarizeSegment per track, in order
Segments(result) ==
    [i \in 1..Len(result) |->
        [speaker |-> result[i].speaker,
         start |-> RoundMs(result[i].start),
         end |-> RoundMs(result[i].end)]]

(***************************************************************************)
(* Requests and responses.                                                 *)
(***************************************************************************)
NoBody == [none |-> TRUE]
NoResp == [status |-> 0, detail |-> "", cause |-> "", body |-> NoBody]

\* raise HTTPException(status_code=status, detail=detail)
HTTPException(status, detail, cause) ==
    [status |-> status, detail |-> detail, cause |-> cause, body |-> NoBody]

\* an exception no handler catches: the framework answers 500
Unhandled(cause) ==
    [status |-> 500, detail |-> "Internal Server Error", cause |-> cause, body |-> NoBody]

Ok(body) == [status |-> 200, detail |-> "", cause |-> "", body |-> body]

Idle ==
    [kind |-> "idle", pc |-> "idle", filename |-> <<>>, data |-> Garbage,
     a |-> <<>>, b |-> <<>>, tmp_path |-> 0, waveform |-> NoWaveform,
     resp |-> NoResp, tmp_made |-> 0, dec_calls |-> 0, decoded |-> "none",
     enc_calls |-> 0, encoded |-> "none", pipe_calls |-> 0, piped |-> "none",
     result |-> <<>>, arith |-> FALSE]

\* the handler of slot r ends with response x; the locals of its frame (the
\* uploaded bytes, the path) go with it
Respond(q, r, x) ==
    [q EXCEPT ![r].pc = "done", ![r].resp = x, ![r].data = Garbage, ![r].tmp_path = 0]

FreeNames == {name \in TmpNames : tmpfiles[name] = NoFile}
Existing == TmpNames \ FreeNames

\* Faulty variant of FreshNames: a fixed path, whether or not a file of that
\* name exists.
FreshNamesFixed ==
    {CHOOSE name \in TmpNames : \A other \in TmpNames : name <= other}

\* tempfile.NamedTemporaryFile picks a name no existing file has; which one
\* is immaterial, and the model takes the least
FreshNames ==
    IF FreeNames = {} THEN {}
    ELSE {CHOOSE name \in FreeNames : \A other \in FreeNames : name <= other}

\* `if hf_token:` -- None and "" are both false
Truthy(token) == token \notin {"None", ""}

(***************************************************************************)
(* Startup: the lifespan context manager calls _load_models, then yields.  *)
(***************************************************************************)
Init ==
    /\ hf_token \in {"None", "", "hf_secret"}
    /\ ecapa_model = "None"
    /\ diarization_pipeline = "None"
    /\ models_loaded = FALSE
    /\ diarization_available = FALSE
    /\ startup = "init"
    /\ load_calls = 0
    /\ loop = 0
    /\ req = [r \in Req |-> Idle]
    /\ tmpfiles = [name \in TmpNames |-> NoFile]

\* Faulty variant of LifespanEnter: the lifespan yields without calling
\* _load_models.
LifespanYieldsWithoutLoad ==
    /\ startup = "init"
    /\ startup' = "serving"
    /\ UNCHANGED <<hf_token, globals, load_calls, loop, req, tmpfiles>>

\* the host enters the lifespan, which calls _load_models()
LifespanEnter ==
    /\ startup = "init"
    /\ startup' = "load_ecapa"
    /\ load_calls' = load_calls + 1
    /\ UNCHANGED <<hf_token, globals, loop, req, tmpfiles>>

\* Faulty variant of LoadEcapa: a failed load is caught and logged, like that
\* of the pipeline, and loading goes on.
LoadEcapaCaught ==
    /\ startup = "load_ecapa"
    /\ startup' = "load_diarization"
    /\ \/ ecapa_model' = "ecapa"
       \/ UNCHANGED ecapa_model
    /\ UNCHANGED <<hf_token, diarization_pipeline, models_loaded,
                   diarization_available, load_calls, loop, req, tmpfiles>>

\* EncoderClassifier.from_hparams(...): returns the model, or raises and
\* startup fails (nothing catches it)
LoadEcapa ==
    /\ startup = "load_ecapa"
    /\ \/ /\ ecapa_model' = "ecapa"
          /\ startup' = "load_diarization"
       \/ /\ startup' = "failed"
          /\ UNCHANGED ecapa_model
    /\ UNCHANGED <<hf_token, diarization_pipeline, models_loaded,
                   diarization_available, load_calls, loop, req, tmpfiles>>

\* Faulty variant of LoadDiarization: no try around the load, so its
\* exception ends startup.
LoadDiarizationPropagates ==
    /\ startup = "load_diarization"
    /\ IF Truthy(hf_token)
       THEN \E outcome \in {"pipeline", "None", "raise"} :
               IF outcome = "raise"
               THEN /\ startup' = "failed"
                    /\ UNCHANGED <<diarization_pipeline, diarization_available>>
               ELSE /\ startup' = "finish"
                    /\ diarization_pipeline' = outcome
                    /\ diarization_available' = TRUE
       ELSE /\ startup' = "finish"
            /\ UNCHANGED <<diarization_pipeline, diarization_available>>
    /\ UNCHANGED <<hf_token, ecapa_model, models_loaded, load_calls, loop, req, tmpfiles>>

\* the HF_TOKEN branch: Pipeline.from_pretrained returns a pipeline, returns
\* None (the gated model could not be fetched), or raises and is caught
LoadDiarization ==
    /\ startup = "load_diarization"
    /\ startup' = "finish"
    /\ IF Truthy(hf_token)
       THEN \E outcome \in {"pipeline", "None", "raise"} :
               IF outcome = "raise"
               THEN UNCHANGED <<diarization_pipeline, diarization_available>>
               ELSE /\ diarization_pipeline' = outcome
                    /\ diarization_available' = TRUE
       ELSE UNCHANGED <<diarization_pipeline, diarization_available>>
    /\ UNCHANGED <<hf_token, ecapa_model, models_loaded, load_calls, loop, req, tmpfiles>>

\* models_loaded = True; _load_models returns and the lifespan yields: the
\* host starts serving
LoadFinish ==
    /\ startup = "finish"
    /\ models_loaded' = TRUE
    /\ startup' = "serving"
    /\ UNCHANGED <<hf_token, ecapa_model, diarization_pipeline,
                   diarization_available, load_calls, loop, req, tmpfiles>>

(***************************************************************************)
(* GET /health                                                             *)
(***************************************************************************)
\* Faulty variant of health: 503 until the models are loaded.
healthNeedsModels(r) ==
    /\ startup = "serving" /\ loop = 0
    /\ req[r].kind = "idle"
    /\ req' = [req EXCEPT ![r] =
                 [Idle EXCEPT !.kind = "health", !.pc = "done",
                    !.resp = IF models_loaded
                             THEN Ok([status |-> "ok", models_loaded |-> models_loaded,
                                      diarization_available |-> diarization_available])
                             ELSE HTTPException(503, "Model not loaded", "")]]
    /\ UNCHANGED <<hf_token, globals, startup, load_calls, loop, tmpfiles>>

health(r) ==
    /\ startup = "serving" /\ loop = 0
    /\ req[r].kind = "idle"
    /\ req' = [req EXCEPT ![r] =
                 [Idle EXCEPT !.kind = "health", !.pc = "done",
                    !.resp = Ok([status |-> "ok", models_loaded |-> models_loaded,
                                 diarization_available |-> diarization_available])]]
    /\ UNCHANGED <<hf_token, globals, startup, load_calls, loop, tmpfiles>>

(***************************************************************************)
(* POST /embed                                                             *)
(***************************************************************************)
\* Faulty variant of embed: no readiness check.
embedUngated(r) ==
    /\ startup = "serving" /\ loop = 0
    /\ req[r].kind = "idle"
    /\ \E fn \in FileNames :
          req' = [req EXCEPT ![r] =
                    [Idle EXCEPT !.kind = "embed", !.filename = fn, !.pc = "reading"]]
    /\ UNCHANGED <<hf_token, globals, startup, load_calls, loop, tmpfiles>>

\* Faulty variant of embed: the extension is checked before the readiness.
embedChecksFormatFirst(r) ==
    /\ startup = "serving" /\ loop = 0
    /\ req[r].kind = "idle"
    /\ \E fn \in FileNames :
          LET new == [Idle EXCEPT !.kind = "embed", !.filename = fn]
          IN  req' = [req EXCEPT ![r] =
                        IF Suffix(fn) \notin SUPPORTED_EXTENSIONS
                        THEN [new EXCEPT !.pc = "done",
                                !.resp = HTTPException(400, "Unsupported format", "")]
                        ELSE IF ecapa_model = "None"
                        THEN [new EXCEPT !.pc = "done",
                                !.resp = HTTPException(503, "Model not loaded", "")]
                        ELSE [new EXCEPT !.pc = "reading"]]
    /\ UNCHANGED <<hf_token, globals, startup, load_calls, loop, tmpfiles>>

\* the readiness check, then `await file.read()` suspends the coroutine; the
\* bytes are known when the read returns
embedOn(r, names) ==
    /\ startup = "serving" /\ loop = 0
    /\ req[r].kind = "idle"
    /\ \E fn \in names :
          LET new == [Idle EXCEPT !.kind = "embed", !.filename = fn]
          IN  req' = [req EXCEPT ![r] =
                        IF ecapa_model = "None"
                        THEN [new EXCEPT !.pc = "done",
                                !.resp = HTTPException(503, "Model not loaded", "")]
                        ELSE [new EXCEPT !.pc = "reading"]]
    /\ UNCHANGED <<hf_token, globals, startup, load_calls, loop, tmpfiles>>

\* the same, for the file names the service as a whole is checked on
embed(r) == embedOn(r, FileNames)

\* Faulty variant of LoadAudioWrite: the temporary file is written before the
\* extension is checked.
LoadAudioWriteBeforeCheck(r) ==
    /\ req[r].kind = "embed" /\ req[r].pc = "reading" /\ loop = 0
    /\ \E data \in Uploads, name \in FreshNames :
          LET suffix == Suffix(req[r].filename)
              read == [req EXCEPT ![r].data = data, ![r].tmp_made = @ + 1]
          IN  IF suffix \notin SUPPORTED_EXTENSIONS
              THEN /\ req' = Respond(read, r, HTTPException(400, "Unsupported format", ""))
                   /\ tmpfiles' = [tmpfiles EXCEPT ![name] = data]
                   /\ UNCHANGED loop
              ELSE /\ tmpfiles' = [tmpfiles EXCEPT ![name] = data]
                   /\ req' = [read EXCEPT ![r].pc = "decode", ![r].tmp_path = name]
                   /\ loop' = r
    /\ UNCHANGED <<hf_token, globals, startup, load_calls>>

\* file.read() returns the bytes; _load_audio up to the end of the `with`
\* block: the extension check, then the temporary file is created and the
\* bytes written
LoadAudioWriteOn(r, uploads) ==
    /\ req[r].kind = "embed" /\ req[r].pc = "reading" /\ loop = 0
    /\ \E data \in uploads :
          LET suffix == Suffix(req[r].filename)
              read == [req EXCEPT ![r].data = data]
          IN  IF suffix \notin SUPPORTED_EXTENSIONS
              THEN /\ req' = Respond(read, r, HTTPException(400, "Unsupported format", ""))
                   /\ UNCHANGED <<loop, tmpfiles>>
              ELSE \E name \in FreshNames :
                      \/ /\ tmpfiles' = [tmpfiles EXCEPT ![name] = data]
                         /\ req' = [read EXCEPT ![r].pc = "decode", ![r].tmp_path = name,
                                                ![r].tmp_made = @ + 1]
                         /\ loop' = r
                      \/ \* tmp.write raises (disk full): the with block closes the
                         \* file, which delete=False keeps, and the error propagates
                         /\ Cardinality(Existing) + 1 < MaxTmp
                         /\ tmpfiles' = [tmpfiles EXCEPT ![name] = Garbage]
                         /\ req' = [Respond(read, r, Unhandled("OSError")) EXCEPT
                                       ![r].tmp_made = @ + 1]
                         /\ UNCHANGED loop
    /\ UNCHANGED <<hf_token, globals, startup, load_calls>>

\* the same, for the uploads the service as a whole is checked on
LoadAudioWrite(r) == LoadAudioWriteOn(r, Uploads)

\* Faulty variant of LoadAudioDecode: a decode failure is swallowed and an
\* empty waveform goes on to the model.
LoadAudioDecodeSwallows(r) ==
    /\ req[r].kind = "embed" /\ req[r].pc = "decode" /\ loop = r
    /\ LET path == req[r].tmp_path
           content == tmpfiles[path]
       IN  /\ tmpfiles' = [tmpfiles EXCEPT ![path] = NoFile]
           /\ req' = [req EXCEPT ![r].dec_calls = @ + 1,
                         ![r].decoded = IF content.ok THEN "ok" ELSE "error",
                         ![r].pc = "encode",
                         ![r].waveform = IF content.ok THEN Normalise(content)
                                         ELSE [NoWaveform EXCEPT !.ch = 1, !.sr = SampleRate]]
    /\ UNCHANGED <<hf_token, globals, startup, load_calls, loop>>

\* torchaudio.load(tmp_path) with its except and finally, then the mono and
\* resample steps
LoadAudioDecode(r) ==
    /\ req[r].kind = "embed" /\ req[r].pc = "decode" /\ loop = r
    /\ LET path == req[r].tmp_path
           content == tmpfiles[path]
           called == [req EXCEPT ![r].dec_calls = @ + 1,
                                 ![r].decoded = IF content.ok THEN "ok" ELSE "error"]
       IN  /\ tmpfiles' = [tmpfiles EXCEPT ![path] = NoFile]
           /\ IF content = NoFile
              THEN \* os.unlink raises in the finally block
                   /\ req' = Respond(called, r, Unhandled("FileNotFoundError"))
                   /\ loop' = 0
              ELSE IF ~content.ok
              THEN /\ req' = Respond(called, r,
                                     HTTPException(400, "Cannot decode audio", "decoder"))
                   /\ loop' = 0
              ELSE /\ req' = [called EXCEPT ![r].pc = "encode",
                                ![r].waveform = Normalise(content)]
                   /\ UNCHANGED loop
    /\ UNCHANGED <<hf_token, globals, startup, load_calls>>

\* ecapa_model.encode_batch(batch) is entered, on the event-loop thread
EncodeBegin(r) ==
    /\ req[r].kind = "embed" /\ req[r].pc = "encode" /\ loop = r
    /\ req' = [req EXCEPT ![r].pc = "encoding", ![r].enc_calls = @ + 1]
    /\ UNCHANGED <<hf_token, globals, startup, load_calls, loop, tmpfiles>>

\* Faulty variant of EncodeEnd: a failed encode unloads the model.
EncodeEndUnloads(r) ==
    /\ req[r].kind = "embed" /\ req[r].pc = "encoding" /\ loop = r
    /\ \/ /\ req' = Respond([req EXCEPT ![r].encoded = "ok"], r,
                             Ok([embedding |-> EncodeBatch(req[r].waveform),
                                 duration_ms |-> DurationMs(req[r].waveform)]))
          /\ UNCHANGED globals
       \/ /\ req' = Respond([req EXCEPT ![r].encoded = "error"], r,
                             Unhandled("encode_batch"))
          /\ ecapa_model' = "None"
          /\ models_loaded' = FALSE
          /\ UNCHANGED <<diarization_pipeline, diarization_available>>
    /\ loop' = 0
    /\ UNCHANGED <<hf_token, startup, load_calls, tmpfiles>>

\* Faulty variant of EncodeEnd: a failed encode is tried once more.
EncodeEndRetries(r) ==
    /\ req[r].kind = "embed" /\ req[r].pc = "encoding" /\ loop = r
    /\ \/ /\ req' = Respond([req EXCEPT ![r].encoded = "ok"], r,
                             Ok([embedding |-> EncodeBatch(req[r].waveform),
                                 duration_ms |-> DurationMs(req[r].waveform)]))
          /\ loop' = 0
       \/ IF req[r].enc_calls < 2
          THEN /\ req' = [req EXCEPT ![r].pc = "encode"]
               /\ UNCHANGED loop
          ELSE /\ req' = Respond([req EXCEPT ![r].encoded = "error"], r,
                                  Unhandled("encode_batch"))
               /\ loop' = 0
    /\ UNCHANGED <<hf_token, globals, startup, load_calls, tmpfiles>>

\* encode_batch returns and embed answers, or encode_batch raises
EncodeEnd(r) ==
    /\ req[r].kind = "embed" /\ req[r].pc = "encoding" /\ loop = r
    /\ \/ req' = Respond([req EXCEPT ![r].encoded = "ok"], r,
                          Ok([embedding |-> EncodeBatch(req[r].waveform),
                              duration_ms |-> DurationMs(req[r].waveform)]))
       \/ \* nothing catches it: the framework answers 500
          req' = Respond([req EXCEPT ![r].encoded = "error"], r,
                         Unhandled("encode_batch"))
    /\ loop' = 0
    /\ UNCHANGED <<hf_token, globals, startup, load_calls, tmpfiles>>

(***************************************************************************)
(* POST /compare                                                           *)
(***************************************************************************)
\* Faulty variant of compare: the similarity is computed before the shapes
\* are compared (over the common prefix when the lengths differ).
compareComputesFirst(r) ==
    /\ startup = "serving" /\ loop = 0
    /\ req[r].kind = "idle"
    /\ \E a \in Vectors, b \in Vectors :
          LET k == IF Len(a) < Len(b) THEN Len(a) ELSE Len(b)
              pa == SubSeq(a, 1, k)
              pb == SubSeq(b, 1, k)
              new == [Idle EXCEPT !.kind = "compare", !.pc = "done", !.a = a, !.b = b,
                                  !.arith = TRUE]
              dot == Dot(pa, pb)
          IN  req' = [req EXCEPT ![r] =
                        IF Len(a) # Len(b)
                        THEN [new EXCEPT !.resp =
                                HTTPException(400, "Embeddings must be 1-D arrays of equal length", "")]
                        ELSE [new EXCEPT !.resp =
                                Ok([similarity |-> RoundedSimilarity(dot, Norm(pa), Norm(pb)),
                                    is_match |-> IsMatch(dot, Norm(pa), Norm(pb))])]]
    /\ UNCHANGED <<hf_token, globals, startup, load_calls, loop, tmpfiles>>

\* compare, for request bodies drawn from `vectors`: the shape check, then
\* the cosine similarity, its rounding and the threshold test
compareOn(r, vectors) ==
    /\ startup = "serving" /\ loop = 0
    /\ req[r].kind = "idle"
    /\ \E a \in vectors, b \in vectors :
          LET new == [Idle EXCEPT !.kind = "compare", !.pc = "done", !.a = a, !.b = b]
              dot == Dot(a, b)
          IN  req' = [req EXCEPT ![r] =
                        IF Len(a) # Len(b)
                        THEN [new EXCEPT !.resp =
                                HTTPException(400, "Embeddings must be 1-D arrays of equal length", "")]
                        ELSE [new EXCEPT !.arith = TRUE, !.resp =
                                Ok([similarity |-> RoundedSimilarity(dot, Norm(a), Norm(b)),
                                    is_match |-> IsMatch(dot, Norm(a), Norm(b))])]]
    /\ UNCHANGED <<hf_token, globals, startup, load_calls, loop, tmpfiles>>

\* Faulty variant of compare: the readiness check of embed comes first.
compareNeedsModel(r) ==
    /\ startup = "serving" /\ loop = 0
    /\ req[r].kind = "idle"
    /\ \E a \in Vectors, b \in Vectors :
          LET new == [Idle EXCEPT !.kind = "compare", !.pc = "done", !.a = a, !.b = b]
              dot == Dot(a, b)
          IN  req' = [req EXCEPT ![r] =
                        IF ecapa_model = "None"
                        THEN [new EXCEPT !.resp = HTTPException(503, "Model not loaded", "")]
                        ELSE IF Len(a) # Len(b)
                        THEN [new EXCEPT !.resp =
                                HTTPException(400, "Embeddings must be 1-D arrays of equal length", "")]
                        ELSE [new EXCEPT !.arith = TRUE, !.resp =
                                Ok([similarity |-> RoundedSimilarity(dot, Norm(a), Norm(b)),
                                    is_match |-> IsMatch(dot, Norm(a), Norm(b))])]]
    /\ UNCHANGED <<hf_token, globals, startup, load_calls, loop, tmpfiles>>

\* the same, for the vectors the service as a whole is checked on
compare(r) == compareOn(r, Vectors)

(***************************************************************************)
(* POST /diarize                                                           *)
(***************************************************************************)
\* Faulty variant of diarize: a missing pipeline is loaded on first use.
diarizeLazyLoad(r) ==
    /\ startup = "serving" /\ loop = 0
    /\ req[r].kind = "idle"
    /\ \E fn \in FileNames :
          req' = [req EXCEPT ![r] =
                    [Idle EXCEPT !.kind = "diarize", !.filename = fn, !.pc = "reading"]]
    /\ diarization_pipeline' = "pipeline"
    /\ diarization_available' = TRUE
    /\ UNCHANGED <<hf_token, ecapa_model, models_loaded, startup, load_calls, loop, tmpfiles>>

\* the availability check, then `await file.read()` suspends the coroutine
diarizeOn(r, names) ==
    /\ startup = "serving" /\ loop = 0
    /\ req[r].kind = "idle"
    /\ \E fn \in names :
          LET new == [Idle EXCEPT !.kind = "diarize", !.filename = fn]
          IN  req' = [req EXCEPT ![r] =
                        IF diarization_pipeline = "None"
                        THEN [new EXCEPT !.pc = "done",
                                !.resp = HTTPException(503, "Diarization not available", "")]
                        ELSE [new EXCEPT !.pc = "reading"]]
    /\ UNCHANGED <<hf_token, globals, startup, load_calls, loop, tmpfiles>>

\* the same, for the file names the service as a whole is checked on
diarize(r) == diarizeOn(r, FileNames)

\* Faulty variant of DiarizeWrite: the extension is checked against the
\* allow-list of /embed first.
DiarizeWriteChecksFormat(r) ==
    /\ req[r].kind = "diarize" /\ req[r].pc = "reading" /\ loop = 0
    /\ \E data \in Uploads, name \in FreshNames :
          LET read == [req EXCEPT ![r].data = data]
          IN  IF Suffix(req[r].filename) \notin SUPPORTED_EXTENSIONS
              THEN /\ req' = Respond(read, r, HTTPException(400, "Unsupported format", ""))
                   /\ UNCHANGED <<loop, tmpfiles>>
              ELSE /\ tmpfiles' = [tmpfiles EXCEPT ![name] = data]
                   /\ req' = [read EXCEPT ![r].pc = "pipeline", ![r].tmp_path = name,
                                          ![r].tmp_made = @ + 1]
                   /\ loop' = r
    /\ UNCHANGED <<hf_token, globals, startup, load_calls>>

\* the `with` block of diarize: the temporary file is created, with whatever
\* suffix the name has, and the bytes written
DiarizeWriteOn(r, uploads) ==
    /\ req[r].kind = "diarize" /\ req[r].pc = "reading" /\ loop = 0
    /\ \E data \in uploads, name \in FreshNames :
          LET read == [req EXCEPT ![r].data = data]
          IN  \/ /\ tmpfiles' = [tmpfiles EXCEPT ![name] = data]
                 /\ req' = [read EXCEPT ![r].pc = "pipeline", ![r].tmp_path = name,
                                        ![r].tmp_made = @ + 1]
                 /\ loop' = r
              \/ \* tmp.write raises: the file stays, the error propagates
                 /\ Cardinality(Existing) + 1 < MaxTmp
                 /\ tmpfiles' = [tmpfiles EXCEPT ![name] = Garbage]
                 /\ req' = [Respond(read, r, Unhandled("OSError")) EXCEPT
                               ![r].tmp_made = @ + 1]
                 /\ UNCHANGED loop
    /\ UNCHANGED <<hf_token, globals, startup, load_calls>>

\* the same, for the uploads the service as a whole is checked on
DiarizeWrite(r) == DiarizeWriteOn(r, Uploads)

\* diarization_pipeline(tmp_path) is entered, on the event-loop thread
PipelineBegin(r) ==
    /\ req[r].kind = "diarize" /\ req[r].pc = "pipeline" /\ loop = r
    /\ req' = [req EXCEPT ![r].pc = "piping", ![r].pipe_calls = @ + 1]
    /\ UNCHANGED <<hf_token, globals, startup, load_calls, loop, tmpfiles>>

\* Faulty variant of PipelineEnd: a pipeline failure switches diarization off.
PipelineEndDisables(r) ==
    /\ req[r].kind = "diarize" /\ req[r].pc = "piping" /\ loop = r
    /\ LET path == req[r].tmp_path
       IN  /\ tmpfiles' = [tmpfiles EXCEPT ![path] = NoFile]
           /\ \/ /\ \E result \in PipelineResults :
                       req' = Respond([req EXCEPT ![r].piped = "ok", ![r].result = result],
                                      r, Ok([segments |-> Segments(result)]))
                 /\ UNCHANGED globals
              \/ /\ req' = Respond([req EXCEPT ![r].piped = "error"], r,
                                    HTTPException(500, "Diarization failed", "pipeline"))
                 /\ diarization_available' = FALSE
                 /\ UNCHANGED <<ecapa_model, diarization_pipeline, models_loaded>>
    /\ loop' = 0
    /\ UNCHANGED <<hf_token, startup, load_calls>>

\* Faulty variant of PipelineEndOn: the file is removed after the try block
\* instead of in a finally, so a pipeline failure leaves it.
PipelineEndOnKeepsFile(r, results) ==
    /\ req[r].kind = "diarize" /\ req[r].pc = "piping" /\ loop = r
    /\ \/ /\ tmpfiles' = [tmpfiles EXCEPT ![req[r].tmp_path] = NoFile]
          /\ \E result \in results :
                req' = Respond([req EXCEPT ![r].piped = "ok", ![r].result = result],
                               r, Ok([segments |-> Segments(result)]))
       \/ /\ req' = Respond([req EXCEPT ![r].piped = "error"], r,
                             HTTPException(500, "Diarization failed", "pipeline"))
          /\ UNCHANGED tmpfiles
    /\ loop' = 0
    /\ UNCHANGED <<hf_token, globals, startup, load_calls>>

\* Faulty variant of PipelineEndOn: when the pipeline fails, the 500 carries
\* the segments of a result all the same.
PipelineEndOnPartial(r, results) ==
    /\ req[r].kind = "diarize" /\ req[r].pc = "piping" /\ loop = r
    /\ tmpfiles' = [tmpfiles EXCEPT ![req[r].tmp_path] = NoFile]
    /\ \E result \in results :
          \/ req' = Respond([req EXCEPT ![r].piped = "ok", ![r].result = result],
                            r, Ok([segments |-> Segments(result)]))
          \/ req' = Respond([req EXCEPT ![r].piped = "error"], r,
                            [HTTPException(500, "Diarization failed", "pipeline") EXCEPT
                                !.body = [segments |-> Segments(result)]])
    /\ loop' = 0
    /\ UNCHANGED <<hf_token, globals, startup, load_calls>>

\* the pipeline returns or raises; the finally block unlinks the file; the
\* tracks are mapped to segments
PipelineEndOn(r, results) ==
    /\ req[r].kind = "diarize" /\ req[r].pc = "piping" /\ loop = r
    /\ LET path == req[r].tmp_path
           content == tmpfiles[path]
       IN  /\ tmpfiles' = [tmpfiles EXCEPT ![path] = NoFile]
           /\ IF content = NoFile
              THEN req' = Respond(req, r, Unhandled("FileNotFoundError"))
              ELSE \/ \E result \in results :
                         req' = Respond([req EXCEPT ![r].piped = "ok", ![r].result = result],
                                        r, Ok([segments |-> Segments(result)]))
                   \/ req' = Respond([req EXCEPT ![r].piped = "error"], r,
                                     HTTPException(500, "Diarization failed", "pipeline"))
    /\ loop' = 0
    /\ UNCHANGED <<hf_token, globals, startup, load_calls>>

\* the same, for the pipeline results the service as a whole is checked on
PipelineEnd(r) == PipelineEndOn(r, PipelineResults)

(***************************************************************************)
(* The response has been sent; the slot can take the next request.         *)
(***************************************************************************)
Retire(r) ==
    /\ req[r].pc = "done"
    /\ req' = [req EXCEPT ![r] = Idle]
    /\ UNCHANGED <<hf_token, globals, startup, load_calls, loop, tmpfiles>>

Startup == LifespanEnter \/ LoadEcapa \/ LoadDiarization \/ LoadFinish

Handle(r) ==
    \/ health(r)
    \/ embed(r) \/ LoadAudioWrite(r) \/ LoadAudioDecode(r) \/ EncodeBegin(r) \/ EncodeEnd(r)
    \/ compare(r)
    \/ diarize(r) \/ DiarizeWrite(r) \/ PipelineBegin(r) \/ PipelineEnd(r)
    \/ Retire(r)

Next == Startup \/ \E r \in Req : Handle(r)

\* the service as `uvicorn.run(app, ...)` runs it: the lifespan first
Spec == Init /\ [][Next]_vars

\* a host that does not run the lifespan protocol serves the handlers on the
\* globals as the module initialises them
InitNoLifespan ==
    /\ hf_token \in {"None", "", "hf_secret"}
    /\ ecapa_model = "None"
    /\ diarization_pipeline = "None"
    /\ models_loaded = FALSE
    /\ diarization_available = FALSE
    /\ startup = "serving"
    /\ load_calls = 0
    /\ loop = 0
    /\ req = [r \in Req |-> Idle]
    /\ tmpfiles = [name \in TmpNames |-> NoFile]

\* the application object under either kind of host
SpecAnyHost == (Init \/ InitNoLifespan) /\ [][Next]_vars

(***************************************************************************)
(* One handler at a time, on a wider range of inputs.  Each specification  *)
(* starts where a successful startup ends and runs the actions of one      *)
(* endpoint.                                                               *)
(***************************************************************************)
\* the state _load_models leaves: without a token, or with one and the
\* pipeline loaded
InitServing ==
    /\ hf_token \in {"None", "hf_secret"}
    /\ ecapa_model = "ecapa"
    /\ diarization_pipeline = (IF Truthy(hf_token) THEN "pipeline" ELSE "None")
    /\ models_loaded = TRUE
    /\ diarization_available = Truthy(hf_token)
    /\ startup = "serving"
    /\ load_calls = 1
    /\ loop = 0
    /\ req = [r \in Req |-> Idle]
    /\ tmpfiles = [name \in TmpNames |-> NoFile]

\* request bodies of /compare: empty and zero vectors, a vector of tiny norm,
\* vectors of different norms, a pair at the 0.80 threshold, opposite vectors
CompareVectors ==
    { <<>>, <<0, 0>>, <<1>>, <<200, 0>>, <<160, 120>>,
      <<6000, 8000>>, <<0 - 6000, 0 - 8000>> }

NextCompare == \E r \in Req : compareOn(r, CompareVectors) \/ Retire(r)

SpecCompare == InitServing /\ [][NextCompare]_vars

\* what the decoder can make of an upload: nothing, or c channels at rate r
\* with k frames
DecoderResults ==
    { Garbage, Audio(1, 16000, 16000), Audio(2, 16000, 8000), Audio(1, 8000, 12001),
      Audio(2, 8000, 12001), Audio(1, 44100, 44100), Audio(6, 48000, 3),
      Audio(1, 16000, 0) }

NextEmbed ==
    \E r \in Req :
        \/ embed(r) \/ LoadAudioWriteOn(r, DecoderResults) \/ LoadAudioDecode(r)
        \/ EncodeBegin(r) \/ EncodeEnd(r)
        \/ Retire(r)

SpecEmbed == InitServing /\ [][NextEmbed]_vars

\* what the pipeline can yield: no speech, one turn, a turn shorter than a
\* millisecond, overlapping turns with a speaker coming back
DiarizationResults ==
    { <<>>,
      << Track(2500, 31415, "SPEAKER_00") >>,
      << Track(0, 12346, "SPEAKER_00"), Track(15000, 15004, "SPEAKER_01") >>,
      << Track(0, 20000, "SPEAKER_01"), Track(10000, 30000, "SPEAKER_00"),
         Track(30000, 45005, "SPEAKER_01") >> }

NextDiarize ==
    \E r \in Req :
        \/ diarize(r) \/ DiarizeWrite(r) \/ PipelineBegin(r)
        \/ PipelineEndOn(r, DiarizationResults)
        \/ Retire(r)

SpecDiarize == InitServing /\ [][NextDiarize]_vars

\* The whole service with every path of every handler, on the fewest inputs
\* that take them: a supported and an unsupported file name, undecodable and
\* decodable bytes, one vector.
LiveNames == { <<"a", ".", "W", "A", "V">>, <<"a", ".", "t", "x", "t">> }
LiveUploads == { Garbage, Audio(2, 8000, 12001) }

\* the first step of a handler: a request arrives
Accept(r) ==
    \/ health(r) \/ embedOn(r, LiveNames) \/ compareOn(r, {<<1>>})
    \/ diarizeOn(r, {<<"a", ".", "t", "x", "t">>})

\* a later step of request r's handler: the event loop resumes the coroutine
\* once its read has completed, and a call that was entered returns or raises
Progress(r) ==
    \/ LoadAudioWriteOn(r, LiveUploads) \/ LoadAudioDecode(r)
    \/ EncodeBegin(r) \/ EncodeEnd(r)
    \/ DiarizeWriteOn(r, {Audio(2, 8000, 12001)}) \/ PipelineBegin(r)
    \/ PipelineEndOn(r, PipelineResults)

NextLive == \E r \in Req : Accept(r) \/ Progress(r) \/ Retire(r)

\* the event loop's scheduling: a coroutine that is ready again and again is
\* resumed
SpecLive ==
    InitServing /\ [][NextLive]_vars /\ \A r \in Req : SF_vars(Progress(r))

(***************************************************************************)
(* Properties.                                                             *)
(***************************************************************************)
\* The embedding model's lifecycle, read off the state: _load_models not yet
\* entered, entered and not finished, finished.
EmbeddingState ==
    IF load_calls = 0 THEN "NOT_LOADED"
    ELSE IF models_loaded THEN "READY" ELSE "LOADING"

Rank(state) ==
    CASE state = "NOT_LOADED" -> 0
      [] state = "LOADING" -> 1
      [] state = "READY" -> 2

Done(r) == req[r].pc = "done"

\* C1: /embed invokes the embedding model only in state READY; an /embed
\* request handled while the state is NOT_LOADED or LOADING is answered 503
\* "Model not loaded" and encode_batch is not called for it.
C1_EncodeOnlyWhenReady ==
    \A r \in Req :
        req[r].kind = "embed" =>
            /\ req[r].enc_calls > 0 => EmbeddingState = "READY"
            /\ EmbeddingState # "READY" =>
                  /\ Done(r)
                  /\ req[r].resp.status = 503
                  /\ req[r].resp.detail = "Model not loaded"
                  /\ req[r].enc_calls = 0

\* an /embed request was handled before any load and got its 503
C1_Witness ==
    \E r \in Req :
        /\ req[r].kind = "embed" /\ Done(r)
        /\ EmbeddingState = "NOT_LOADED"
        /\ req[r].resp.status = 503

\* C2: with no HF_TOKEN at startup (unset or empty), every /diarize request
\* is answered 503 at once, and the pipeline is never loaded or called.
C2_NoTokenAlwaysUnavailable ==
    ~Truthy(hf_token) =>
        /\ diarization_pipeline = "None"
        /\ \A r \in Req :
              req[r].kind = "diarize" =>
                  /\ Done(r)
                  /\ req[r].resp.status = 503
                  /\ req[r].pipe_calls = 0
                  /\ req[r].tmp_made = 0

\* after a startup without token, a /diarize request has been answered 503
C2_Witness ==
    \E r \in Req :
        /\ ~Truthy(hf_token) /\ startup = "serving" /\ load_calls = 1
        /\ req[r].kind = "diarize" /\ Done(r) /\ req[r].resp.status = 503

\* C3: while the encode of an /embed request or the pipeline call of a
\* /diarize request is running, a /health or /compare request arriving in a
\* free slot can be handled (the inference does not hold the event loop).
C3_InferenceOffloaded ==
    \A r \in Req :
        req[r].pc \in {"encoding", "piping"} =>
            \A q \in Req \ {r} :
                req[q].kind = "idle" => (ENABLED health(q)) /\ (ENABLED compare(q))

\* C4: every temporary file that exists belongs to a handler that is still
\* between creating it and unlinking it; once the ingestion step of /embed or
\* the handler of /diarize has returned or failed, its file is gone.
C4_TempFileReleased ==
    \A name \in Existing :
        /\ loop # 0
        /\ req[loop].tmp_path = name
        /\ req[loop].pc \in {"decode", "pipeline", "piping"}

\* C5: _load_models is entered at most once, and a request is handled only
\* after that one load has finished.
C5_LoadOnceBeforeRequests ==
    /\ load_calls <= 1
    /\ startup # "init" => load_calls = 1
    /\ \A r \in Req :
          req[r].kind # "idle" =>
              /\ load_calls = 1
              /\ startup = "serving"
              /\ models_loaded

\* a request has been handled after the load
C5_Witness ==
    \E r \in Req : req[r].kind # "idle" /\ Done(r) /\ load_calls = 1

\* C6: the embedding state only moves forward, one stage at a time, and
\* diarization_available only goes from false to true, and only while
\* _load_models runs.
C6_StateMovesForward ==
    [][ /\ Rank(EmbeddingState') >= Rank(EmbeddingState)
        /\ Rank(EmbeddingState') <= Rank(EmbeddingState) + 1
        /\ diarization_available => diarization_available'
        /\ diarization_available' # diarization_available =>
              startup = "load_diarization" ]_vars

\* the model is READY, diarization AVAILABLE, and a pipeline call has failed
C6_Witness ==
    /\ EmbeddingState = "READY" /\ diarization_available
    /\ \E r \in Req :
          req[r].kind = "diarize" /\ Done(r) /\ req[r].resp.status = 500
                                  /\ req[r].pipe_calls = 1

\* C7: once the host serves, no step changes ecapa_model,
\* diarization_pipeline, models_loaded or diarization_available.
C7_GlobalsReadOnlyAfterStartup ==
    [][ startup = "serving" => UNCHANGED globals ]_vars

\* requests of both kinds that reach the models have run to their end, one
\* of them failing in encode_batch
C7_Witness ==
    /\ startup = "serving" /\ models_loaded
    /\ \E r \in Req :
          req[r].kind = "embed" /\ Done(r) /\ req[r].enc_calls = 1
                                /\ req[r].resp.status = 500

\* C8: an /embed upload whose extension is not in SUPPORTED_EXTENSIONS is
\* answered 400 "Unsupported format", with no temporary file created, no
\* decode and no encode for that request.
C8_UnsupportedFormatFirst ==
    \A r \in Req :
        (req[r].kind = "embed" /\ Suffix(req[r].filename) \notin SUPPORTED_EXTENSIONS) =>
            /\ req[r].tmp_made = 0
            /\ req[r].dec_calls = 0
            /\ req[r].enc_calls = 0
            /\ Done(r) =>
                  /\ req[r].resp.status = 400
                  /\ req[r].resp.detail = "Unsupported format"

\* an upload named a.txt has been answered 400
C8_Witness ==
    \E r \in Req :
        /\ req[r].kind = "embed" /\ Done(r)
        /\ Suffix(req[r].filename) \notin SUPPORTED_EXTENSIONS
        /\ req[r].resp.status = 400

\* C9: when the decoder fails, /embed ends with 400 "Cannot decode audio"
\* carrying the decoder's error; ingestion has returned no waveform and
\* encode_batch is not called for that request.
C9_DecodeErrorNoWaveform ==
    \A r \in Req :
        (req[r].kind = "embed" /\ req[r].decoded = "error") =>
            /\ Done(r)
            /\ req[r].resp.status = 400
            /\ req[r].resp.detail = "Cannot decode audio"
            /\ req[r].resp.cause = "decoder"
            /\ req[r].waveform = NoWaveform
            /\ req[r].enc_calls = 0

\* the decoder has been called on undecodable bytes and has failed
C9_Witness ==
    \E r \in Req :
        /\ req[r].kind = "embed" /\ req[r].decoded = "error" /\ req[r].dec_calls = 1
        /\ req[r].resp.status = 400

\* C10: /compare on embeddings of different lengths is answered 400; neither
\* the dot product nor the norms are computed and no similarity or is_match
\* is returned.
C10_ShapeMismatchNoArithmetic ==
    \A r \in Req :
        (req[r].kind = "compare" /\ Len(req[r].a) # Len(req[r].b)) =>
            /\ Done(r)
            /\ req[r].resp.status = 400
            /\ req[r].resp.body = NoBody
            /\ ~req[r].arith

\* a /compare of a 1-vector with a 2-vector has been answered
C10_Witness ==
    \E r \in Req :
        /\ req[r].kind = "compare" /\ Done(r)
        /\ Len(req[r].a) # Len(req[r].b)
        /\ req[r].resp.status = 400

\* a /compare that passed the shape check and was answered
Compared(r) ==
    req[r].kind = "compare" /\ Done(r) /\ req[r].resp.status = 200

\* the threshold 0.80, in units of 1e-4
Threshold == 8000

\* C11: in every /compare response is_match is true exactly when the returned
\* similarity is at least 0.80; a response showing similarity 0.80 has
\* is_match true.
C11_MatchIffReturnedSimilarity ==
    \A r \in Req :
        Compared(r) =>
            (req[r].resp.body.is_match <=> req[r].resp.body.similarity >= Threshold)

\* C12: /compare is symmetric: the answer for (a, b) is the answer for (b, a),
\* similarity and is_match alike.
C12_CompareSymmetric ==
    \A r \in Req, q \in Req :
        ( /\ req[r].kind = "compare" /\ Done(r)
          /\ req[q].kind = "compare" /\ Done(q)
          /\ req[r].a = req[q].b /\ req[r].b = req[q].a ) =>
            req[r].resp = req[q].resp

\* two answered /compare requests on the same two vectors in opposite order,
\* the vectors differing in direction and in norm
C12_Witness ==
    \E r \in Req, q \in Req :
        /\ r # q /\ Compared(r) /\ Compared(q)
        /\ req[r].a = req[q].b /\ req[r].b = req[q].a
        /\ Norm(req[r].a) # Norm(req[r].b)
        /\ req[r].resp.body.similarity \notin {0, 10000, 0 - 10000}

\* C13 as stated: comparing any non-zero vector with itself returns
\* similarity 1.0 and is_match true, however small its norm.
C13_SelfSimilarityAnyNonZero ==
    \A r \in Req :
        (Compared(r) /\ req[r].a = req[r].b /\ Dot(req[r].a, req[r].a) > 0) =>
            /\ req[r].resp.body.similarity = 10000
            /\ req[r].resp.body.is_match

\* C13, amended: comparing a vector whose squared norm is at least 2.5e-4
\* (25000 units of 1e-8) with itself returns similarity 1.0 and is_match true.
C13_SelfSimilarityAboveEpsilon ==
    \A r \in Req :
        (Compared(r) /\ req[r].a = req[r].b /\ Dot(req[r].a, req[r].a) >= 25000) =>
            /\ req[r].resp.body.similarity = 10000
            /\ req[r].resp.body.is_match

\* a vector of norm 0.02 has been compared with itself
C13_Witness ==
    \E r \in Req :
        /\ Compared(r) /\ req[r].a = req[r].b
        /\ Dot(req[r].a, req[r].a) >= 25000
        /\ Dot(req[r].a, req[r].a) < 50000

\* C14: whatever the decoder returns, c >= 1 channels at rate r, ingestion
\* hands on a one-dimensional mono waveform at 16000 Hz; the channels were
\* averaged only if c > 1 and the waveform resampled only if r # 16000.
C14_IngestMonoAt16k ==
    \A r \in Req :
        (req[r].kind = "embed" /\ req[r].decoded = "ok") =>
            LET w == req[r].waveform
                d == req[r].data
            IN  /\ w.ndim = 1 /\ w.ch = 1 /\ w.sr = SampleRate
                /\ req[r].pc \in {"encode", "encoding"} =>
                      /\ d.ok /\ d.ch >= 1
                      /\ w.downmixed <=> d.ch > 1
                      /\ w.resampled <=> d.sr # SampleRate

\* ingestion has returned for a decoder result of one channel at another
\* rate than 16000 Hz
C14_Witness ==
    \E r \in Req :
        /\ req[r].kind = "embed" /\ req[r].pc = "encode"
        /\ req[r].data.ok /\ req[r].data.ch = 1 /\ req[r].data.sr < SampleRate
        /\ req[r].waveform.resampled

\* C15: the waveform encode_batch is called on has at least one sample, and
\* a successful /embed response has duration_s > 0.
C15_EncodeInputHasDuration ==
    \A r \in Req :
        req[r].kind = "embed" =>
            /\ req[r].enc_calls > 0 => req[r].waveform.n > 0
            /\ (Done(r) /\ req[r].resp.status = 200) => req[r].resp.body.duration_ms > 0

\* C16: GET /health never fails: whenever the service can take a request the
\* handler can run, and every /health request is answered 200 with status
\* "ok" and the current values of models_loaded and diarization_available.
C16_HealthAlwaysAnswers ==
    \A r \in Req :
        /\ (startup = "serving" /\ loop = 0 /\ req[r].kind = "idle") => ENABLED health(r)
        /\ req[r].kind = "health" =>
              /\ Done(r)
              /\ req[r].resp.status = 200
              /\ req[r].resp.body.status = "ok"
              /\ req[r].resp.body.models_loaded = models_loaded
              /\ req[r].resp.body.diarization_available = diarization_available

\* /health has been answered before the models were loaded
C16_Witness ==
    \E r \in Req :
        /\ req[r].kind = "health" /\ Done(r) /\ req[r].resp.status = 200
        /\ EmbeddingState = "NOT_LOADED"
        /\ ~req[r].resp.body.models_loaded

\* C17: when the pipeline raises, /diarize ends with 500 "Diarization
\* failed" and no segments, the pipeline has been called once for the request,
\* and the step that ends the call removes the request's temporary file.
C17_PipelineErrorIs500 ==
    /\ [](\A r \in Req :
             (req[r].kind = "diarize" /\ req[r].piped = "error") =>
                 /\ Done(r)
                 /\ req[r].resp.status = 500
                 /\ req[r].resp.detail = "Diarization failed"
                 /\ req[r].resp.body = NoBody
                 /\ req[r].pipe_calls = 1)
    /\ [][\A r \in Req :
             (req[r].pc = "piping" /\ req'[r].piped = "error") =>
                 tmpfiles'[req[r].tmp_path] = NoFile]_vars

\* a pipeline call has raised and the request has been answered
C17_Witness ==
    \E r \in Req :
        /\ req[r].kind = "diarize" /\ req[r].piped = "error" /\ req[r].pipe_calls = 1
        /\ Done(r) /\ req[r].resp.status = 500

\* C18: when encode_batch raises, /embed ends with a 500 and no embedding;
\* the model is called at most once for a request.
C18_EncodeErrorIs500 ==
    \A r \in Req :
        req[r].kind = "embed" =>
            /\ req[r].enc_calls <= 1
            /\ req[r].encoded = "error" =>
                  /\ Done(r)
                  /\ req[r].resp.status = 500
                  /\ req[r].resp.body = NoBody
                  /\ req[r].enc_calls = 1

\* encode_batch has raised and the request has been answered
C18_Witness ==
    \E r \in Req :
        /\ req[r].kind = "embed" /\ req[r].encoded = "error" /\ req[r].enc_calls = 1
        /\ Done(r) /\ req[r].resp.cause = "encode_batch"

\* a /diarize request whose pipeline call returned and that was answered
Diarized(r) ==
    req[r].kind = "diarize" /\ req[r].piped = "ok" /\ Done(r)

\* C19: every segment /diarize returns has start < end, also for a turn so
\* short that both ends round to the same millisecond.
C19_SegmentStartBeforeEnd ==
    \A r \in Req :
        Diarized(r) =>
            \A i \in 1..Len(req[r].resp.body.segments) :
                req[r].resp.body.segments[i].start < req[r].resp.body.segments[i].end

\* C20: a successful /diarize returns one segment per track of the pipeline
\* result, in the pipeline's order, with the track's speaker label and its
\* start and end each within half a millisecond (rounded to 3 decimals).
C20_SegmentsFollowTracks ==
    \A r \in Req :
        Diarized(r) =>
            LET segs == req[r].resp.body.segments
                tracks == req[r].result
            IN  /\ req[r].resp.status = 200
                /\ Len(segs) = Len(tracks)
                /\ \A i \in 1..Len(tracks) :
                      /\ segs[i].speaker = tracks[i].speaker
                      /\ Abs(10 * segs[i].start - tracks[i].start) <= 5
                      /\ Abs(10 * segs[i].end - tracks[i].end) <= 5

\* a result of three turns, the first speaker coming back, has been answered
C20_Witness ==
    \E r \in Req :
        /\ Diarized(r) /\ Len(req[r].result) = 3
        /\ req[r].result[1].speaker = req[r].result[3].speaker
        /\ Len(req[r].resp.body.segments) = 3

\* request r is between the creation and the removal of its temporary file
HoldsFile(r) == req[r].pc \in {"decode", "pipeline", "piping"}

\* C21: temporary files are not shared: a request between creating and
\* removing its file finds in it the bytes it wrote, no other request has the
\* same path, no step writes over an existing file, and a file is removed only
\* by the request whose path it is, in the step that ends its own decode or
\* pipeline call.
C21_TempFilesNotShared ==
    /\ [](\A r \in Req :
             HoldsFile(r) =>
                 /\ tmpfiles[req[r].tmp_path] = req[r].data
                 /\ \A q \in Req \ {r} :
                        HoldsFile(q) => req[q].tmp_path # req[r].tmp_path)
    /\ [][\A name \in TmpNames :
             /\ (tmpfiles[name] # NoFile /\ tmpfiles'[name] # NoFile) =>
                    tmpfiles'[name] = tmpfiles[name]
             /\ (tmpfiles[name] # NoFile /\ tmpfiles'[name] = NoFile) =>
                    \E r \in Req :
                        /\ loop = r /\ req[r].tmp_path = name
                        /\ req[r].pc \in {"decode", "piping"}
                        /\ req'[r].dec_calls + req'[r].pipe_calls = 1]_vars

\* one request holds its file for the decoder while another request waits for
\* its upload and a file a third request left behind exists
C21_Witness ==
    \E r \in Req, q \in Req :
        /\ r # q
        /\ req[r].kind = "embed" /\ req[r].pc = "decode" /\ req[r].data.ok
        /\ req[q].kind = "diarize" /\ req[q].pc = "reading"
        /\ Cardinality(Existing) = 2

\* what a request consists of besides its response: its input and what its
\* external calls did
Apart(r) == [req[r] EXCEPT !.resp = NoResp]

C23_DiarizeNeverRejectsFile ==
    \A r \in Req :
        req[r].kind = "diarize" =>
            /\ req[r].resp.status \in {0, 200, 500, 503}
            /\ req[r].resp.status = 503 => diarization_pipeline = "None"
            /\ (diarization_pipeline # "None" /\ req[r].pc # "reading") =>
                  req[r].tmp_made = 1
            /\ (diarization_pipeline # "None" /\ Done(r) /\ req[r].resp.cause # "OSError") =>
                  req[r].pipe_calls = 1

\* a file whose extension /embed would refuse has been through the pipeline
C23_Witness ==
    \E r \in Req :
        /\ req[r].kind = "diarize" /\ Done(r)
        /\ Suffix(req[r].filename) \notin SUPPORTED_EXTENSIONS
        /\ req[r].tmp_made = 1 /\ req[r].pipe_calls = 1
        /\ req[r].resp.status = 200

\* C24: /compare on vectors of equal length of which one or both are all
\* zeros, or both empty, is answered 200 with similarity 0 and is_match false.
C24_DegenerateVectorsGiveZero ==
    \A r \in Req :
        ( /\ req[r].kind = "compare" /\ Len(req[r].a) = Len(req[r].b)
          /\ (Dot(req[r].a, req[r].a) = 0 \/ Dot(req[r].b, req[r].b) = 0) ) =>
            /\ Done(r)
            /\ req[r].resp.status = 200
            /\ req[r].resp.body.similarity = 0
            /\ ~req[r].resp.body.is_match

\* a zero vector has been compared with a vector of norm 1
C24_Witness ==
    \E r \in Req :
        /\ Compared(r)
        /\ Len(req[r].a) = 2 /\ Dot(req[r].a, req[r].a) = 0
        /\ Dot(req[r].b, req[r].b) > 0

\* C25: while the embedding model is not loaded every /embed request is
\* answered 503 "Model not loaded", whatever its file name and bytes; the
\* upload has not been read, no temporary file made and the decoder and the
\* model not called.
C25_ReadinessCheckedFirst ==
    \A r \in Req :
        (req[r].kind = "embed" /\ ecapa_model = "None") =>
            /\ Done(r)
            /\ req[r].resp.status = 503
            /\ req[r].resp.detail = "Model not loaded"
            /\ req[r].data = Idle.data
            /\ req[r].tmp_made = 0
            /\ req[r].dec_calls = 0
            /\ req[r].enc_calls = 0

\* an /embed request for a file of unsupported extension has been answered
\* 503 with the model not loaded
C25_Witness ==
    \E r \in Req :
        /\ req[r].kind = "embed" /\ Done(r)
        /\ ecapa_model = "None"
        /\ Suffix(req[r].filename) \notin SUPPORTED_EXTENSIONS
        /\ req[r].resp.status = 503

\* C26: every request that was taken up is eventually answered; until then
\* it has no response at all, the response is either a success with a body or
\* an error without one, and once given it does not change.
C26_OneOutcomePerRequest ==
    /\ \A r \in Req : (req[r].kind # "idle") ~> Done(r)
    /\ [](\A r \in Req :
             /\ ~Done(r) => req[r].resp = NoResp
             /\ Done(r) =>
                   /\ req[r].resp.status # 0
                   /\ req[r].resp.status = 200 <=> req[r].resp.body # NoBody)
    /\ [][\A r \in Req :
             Done(r) => (req'[r] = req[r] \/ req'[r] = Idle)]_vars

\* requests of two endpoints have been answered, one with a success and one
\* with an error
C26_Witness ==
    \E r \in Req, q \in Req :
        /\ req[r].kind = "diarize" /\ Done(r) /\ req[r].resp.status = 200
        /\ req[q].kind = "embed" /\ Done(q) /\ req[q].resp.status = 400

\* C27: once the service serves, diarization_available is true exactly when
\* diarization_pipeline is set, so that /health reports diarization as
\* available exactly when /diarize does not answer 503.
C27_HealthAgreesWithDiarize ==
    startup = "serving" => (diarization_available <=> diarization_pipeline # "None")

\* C28: models_loaded implies that ecapa_model is set; a state in which
\* requests are handled and ecapa_model is set has models_loaded true; and no
\* /embed request has a 503 beside a /health response reporting models_loaded.
C28_HealthAgreesWithEmbed ==
    /\ models_loaded => ecapa_model # "None"
    /\ (startup = "serving" /\ ecapa_model # "None") => models_loaded
    /\ \A r \in Req, q \in Req :
          ( /\ req[r].kind = "health" /\ Done(r) /\ req[r].resp.body.models_loaded
            /\ req[q].kind = "embed" ) =>
              req[q].resp.status # 503

\* /health has reported models_loaded and an /embed request is past the gate
C28_Witness ==
    \E r \in Req, q \in Req :
        /\ req[r].kind = "health" /\ Done(r) /\ req[r].resp.body.models_loaded
        /\ req[q].kind = "embed" /\ req[q].pc = "reading"

\* the token is set and the load of the pipeline has raised: the one way for
\* _load_models to get past the HF_TOKEN branch with a token and with
\* diarization_available still false
DiarizationLoadRaised ==
    /\ Truthy(hf_token)
    /\ startup \in {"finish", "serving"}
    /\ ~diarization_available

\* C29: a raising pipeline load does not fail startup, which fails only
\* without the embedding model; loading can finish, and from then on
\* models_loaded is true, no pipeline is set, no /embed request is answered 503
\* and every /diarize request is.
C29_DiarizationFailureNotFatal ==
    /\ startup = "failed" => ecapa_model = "None"
    /\ startup = "finish" => ENABLED LoadFinish
    /\ DiarizationLoadRaised =>
          /\ diarization_pipeline = "None"
          /\ ecapa_model # "None"
          /\ startup = "serving" => models_loaded
          /\ \A r \in Req :
                /\ req[r].kind = "diarize" => (Done(r) /\ req[r].resp.status = 503)
                /\ req[r].kind = "embed" => req[r].resp.status # 503

\* after a raising pipeline load an /embed request has got its embedding and
\* a /diarize request its 503
C29_Witness ==
    \E r \in Req, q \in Req :
        /\ DiarizationLoadRaised /\ models_loaded
        /\ req[r].kind = "embed" /\ Done(r) /\ req[r].resp.status = 200
        /\ req[q].kind = "diarize" /\ Done(q) /\ req[q].resp.status = 503

\* C30: /compare is answered at once, models loaded or not, with 200 or 400
\* and never 503; its result is the rounded cosine and the threshold test of
\* its two vectors and of nothing else; it calls no decoder, model or
\* pipeline, and its step leaves the globals and the temporary files as they
\* are.
C30_CompareIndependentOfModels ==
    /\ [](\A r \in Req :
             req[r].kind = "compare" =>
                 /\ Done(r)
                 /\ req[r].resp.status \in {200, 400}
                 /\ req[r].tmp_made = 0 /\ req[r].dec_calls = 0
                 /\ req[r].enc_calls = 0 /\ req[r].pipe_calls = 0
                 /\ req[r].resp.status = 200 =>
                       LET dot == Dot(req[r].a, req[r].b)
                           na == Norm(req[r].a)
                           nb == Norm(req[r].b)
                       IN  req[r].resp.body =
                             [similarity |-> RoundedSimilarity(dot, na, nb),
                              is_match |-> IsMatch(dot, na, nb)])
    /\ [][\A r \in Req :
             (req[r].kind = "idle" /\ req'[r].kind = "compare") =>
                 UNCHANGED <<globals, tmpfiles, loop>>]_vars

\* /compare has been answered with a similarity while no model was loaded
C30_Witness ==
    \E r \in Req :
        /\ Compared(r)
        /\ ecapa_model = "None" /\ ~models_loaded /\ diarization_pipeline = "None"

=============================================================================
